---------------------------- MODULE Spec2Model ----------------------------
(***************************************************************************)
(* A model of dp::BigInt (BigInt.h / BigInt.cpp): a sign-magnitude         *)
(* arbitrary-precision integer.  m_sign is TRUE for positive, m_bits is    *)
(* the little-endian sequence of unitSize-bit words.  C++ index i of       *)
(* m_bits is index i+1 of the TLA+ sequence.                               *)
(*                                                                         *)
(* The word type is uint64_t in the source.  The algorithms are written    *)
(* against unitSize and maxBitValue only, so the model keeps them          *)
(* word-for-word and scales unitSize down to keep 2^unitSize enumerable.   *)
(***************************************************************************)
EXTENDS Integers, Sequences, FiniteSets, TLC

\* Width of one word in bits (8 * sizeof(arrayType) in the source, scaled).
unitSize == 2

\* Largest number of words a stored BigInt (a or b) may have.
MaxWords == 2

RECURSIVE Pow2(_)
Pow2(n) == IF n = 0 THEN 1 ELSE 2 * Pow2(n - 1)

\* std::numeric_limits<arrayType>::max()
maxBitValue == Pow2(unitSize) - 1

\* The values of arrayType.
arrayType == 0 .. maxBitValue

\* BigInt::BigInt(arrayType inVal, bool sign)
BigInt(inVal, sign) == [m_sign |-> sign, m_bits |-> <<inVal>>]

\* BigInt::BigInt()
zero == [m_sign |-> TRUE, m_bits |-> <<0>>]

(***************************************************************************)
(* PRIVATE FUNCTIONS                                                       *)
(***************************************************************************)

RECURSIVE trimLoop(_)
trimLoop(bits) ==
    IF Len(bits) > 0 /\ bits[Len(bits)] = 0
    THEN trimLoop(SubSeq(bits, 1, Len(bits) - 1))
    ELSE bits


\* A trim without the final push_back: a zero magnitude is left empty.
trimLeadingZeroesToEmpty(x) == [x EXCEPT !.m_bits = trimLoop(@)]

\* Pops most-significant zero words; never leaves m_bits empty.
trimLeadingZeroes(x) ==
    LET t == trimLoop(x.m_bits)
    IN  [x EXCEPT !.m_bits = IF Len(t) = 0 THEN <<0>> ELSE t]

\* The push_back loop of matchVectorSize.
RECURSIVE padLoop(_, _)
padLoop(bits, inSize) ==
    IF Len(bits) < inSize THEN padLoop(Append(bits, 0), inSize) ELSE bits

\* Appends zero words up to inSize; never shrinks.
matchVectorSize(x, inSize) == [x EXCEPT !.m_bits = padLoop(@, inSize)]

getNthBit(inValue, inIndex) == (inValue \div Pow2(inIndex)) % 2 = 1

getTotalNthBit(x, inIndex) ==
    getNthBit(x.m_bits[(inIndex \div unitSize) + 1], inIndex % unitSize)

\* inValue ^= 1 << inIndex when the bit differs from inBit.
setNthBit(inValue, inIndex, inBit) ==
    IF getNthBit(inValue, inIndex) # inBit
    THEN IF inBit THEN inValue + Pow2(inIndex) ELSE inValue - Pow2(inIndex)
    ELSE inValue

setTotalNthBit(x, inIndex, inBit) ==
    [x EXCEPT !.m_bits[(inIndex \div unitSize) + 1] =
                  setNthBit(@, inIndex % unitSize, inBit)]

(***************************************************************************)
(* MISC FUNCTIONALITY, unary minus, comparison                             *)
(***************************************************************************)

abs(x) == [x EXCEPT !.m_sign = TRUE]


\* A unary minus that leaves a zero magnitude positive.
opNegKeepsZero(x) ==
    IF \A i \in 1 .. Len(x.m_bits) : x.m_bits[i] = 0
    THEN [x EXCEPT !.m_sign = TRUE]
    ELSE [x EXCEPT !.m_sign = ~x.m_sign]

opNeg(x) == [x EXCEPT !.m_sign = ~x.m_sign]

\* operator==(const BigInt&); sameObject is (&inInt == this).
opEqObj(x, y, sameObject) ==
    IF sameObject THEN TRUE
    ELSE IF x.m_sign # y.m_sign THEN FALSE
    ELSE IF Len(y.m_bits) # Len(x.m_bits) THEN FALSE
    ELSE \A i \in 1 .. Len(x.m_bits) : x.m_bits[i] = y.m_bits[i]

opEq(x, y) == opEqObj(x, y, FALSE)

\* operator==(arrayType): the shortcut equality; the sign is not read.
opEqWord(x, inInt) ==
    IF Len(x.m_bits) # 1 THEN FALSE ELSE x.m_bits[1] = inInt

opNe(x, y) == ~opEq(x, y)

\* The word loop with the two words compared through their wrapped
\* difference, as a signed subtraction would compare them.
RECURSIVE lessLoopWrapped(_, _, _, _)
lessLoopWrapped(xb, yb, thisSize, i) ==
    LET half == Pow2(unitSize - 1)
        up == (yb[thisSize - i] - xb[thisSize - i] + Pow2(unitSize))
              % Pow2(unitSize)
        down == (xb[thisSize - i] - yb[thisSize - i] + Pow2(unitSize))
                % Pow2(unitSize)
    IN  IF i >= thisSize THEN FALSE
        ELSE IF up > 0 /\ up < half THEN TRUE
        ELSE IF down > 0 /\ down < half THEN FALSE
        ELSE lessLoopWrapped(xb, yb, thisSize, i + 1)

\* The word loop of operator<, from the most significant word down.
RECURSIVE lessLoop(_, _, _, _)
lessLoop(xb, yb, thisSize, i) ==
    IF i >= thisSize THEN FALSE
    ELSE IF xb[thisSize - i] < yb[thisSize - i] THEN TRUE
    ELSE IF xb[thisSize - i] > yb[thisSize - i] THEN FALSE
    ELSE lessLoop(xb, yb, thisSize, i + 1)

\* operator<; sameObject is (this == &inInt).
opLessObj(x, y, sameObject) ==
    IF sameObject THEN FALSE
    ELSE IF x.m_sign # y.m_sign THEN ~x.m_sign
    ELSE IF Len(x.m_bits) < Len(y.m_bits) THEN TRUE
    ELSE IF Len(x.m_bits) > Len(y.m_bits) THEN FALSE
    ELSE lessLoop(x.m_bits, y.m_bits, Len(x.m_bits), 0)

opLess(x, y) == opLessObj(x, y, FALSE)

\* operator> without its inequality test: the answer of >=.
opGreaterNotLess(x, y, sameObject) == ~opLessObj(x, y, sameObject)

\* operator>
opGreaterObj(x, y, sameObject) ==
    ~opEqObj(x, y, sameObject) /\ ~opLessObj(x, y, sameObject)

opGreater(x, y) == opGreaterObj(x, y, FALSE)

opLessEq(x, y) == ~opGreater(x, y)

opGreaterEq(x, y) == ~opLess(x, y)

(***************************************************************************)
(* ARITHMETIC OPERATORS: the additive core                                 *)
(***************************************************************************)

\* 1 << (unitSize - 1)
getMostSignificantBit == Pow2(unitSize - 1)


\* A carry loop that appends no word: the carry out of the top word is lost.
RECURSIVE carryLoopNoGrowth(_, _, _)
carryLoopNoGrowth(sol, j, biggerSize) ==
    IF j >= biggerSize - 1 THEN sol
    ELSE IF sol[j + 2] = maxBitValue
         THEN carryLoopNoGrowth([sol EXCEPT ![j + 2] = 0], j + 1, biggerSize)
         ELSE [sol EXCEPT ![j + 2] = @ + 1]

\* The inner loop over j of operator+: a unit carry out of word j.
RECURSIVE carryLoop(_, _, _)
carryLoop(sol, j, biggerSize) ==
    IF j >= biggerSize THEN sol
    ELSE IF j = biggerSize - 1 THEN Append(sol, 1)
    ELSE IF sol[j + 2] = maxBitValue
         THEN carryLoop([sol EXCEPT ![j + 2] = 0], j + 1, biggerSize)
         ELSE [sol EXCEPT ![j + 2] = @ + 1]

\* One word of operator+: the low unitSize-1 bits are added natively, the
\* top bit and the carry are rebuilt from the three most significant bits.
addWord(solWord, inWord) ==
    LET term1MostSigBit == getNthBit(solWord, unitSize - 1)
        term2MostSigBit == getNthBit(inWord, unitSize - 1)
        term1 == solWord % getMostSignificantBit
        term2 == inWord % getMostSignificantBit
        sum == term1 + term2
        slnMostSigBit == getNthBit(sum, unitSize - 1)
        bitSum == (IF term1MostSigBit THEN 1 ELSE 0)
                  + (IF term2MostSigBit THEN 1 ELSE 0)
                  + (IF slnMostSigBit THEN 1 ELSE 0)
    IN  IF bitSum > 1
        THEN [overflow |-> TRUE,
              word |-> setNthBit(sum, unitSize - 1, bitSum > 2)]
        ELSE [overflow |-> FALSE,
              word |-> IF (IF slnMostSigBit THEN 1 ELSE 0) # bitSum
                       THEN setNthBit(sum, unitSize - 1, ~slnMostSigBit)
                       ELSE sum]

\* The loop over i of operator+, over the words of the shorter operand.
RECURSIVE addLoop(_, _, _, _, _)
addLoop(sol, inBits, i, smallerSize, biggerSize) ==
    IF i >= smallerSize THEN sol
    ELSE LET w == addWord(sol[i + 1], inBits[i + 1])
             sol1 == [sol EXCEPT ![i + 1] = w.word]
             sol2 == IF w.overflow THEN carryLoop(sol1, i, biggerSize) ELSE sol1
         IN  addLoop(sol2, inBits, i + 1, smallerSize, biggerSize)

\* The bit loop over j of operator-, for one word with a borrow.
RECURSIVE subBits(_, _, _, _, _)
subBits(solWord, thisWord, inWord, j, carryOver) ==
    IF j >= unitSize THEN [word |-> solWord, carryOver |-> carryOver]
    ELSE LET bitSum == (IF getNthBit(thisWord, j) THEN 1 ELSE 0)
                       - (IF getNthBit(inWord, j) THEN 1 ELSE 0)
                       - (IF carryOver THEN 1 ELSE 0)
             bit == IF bitSum = -2 THEN FALSE ELSE bitSum # 0
         IN  subBits(setNthBit(solWord, j, bit), thisWord, inWord, j + 1,
                     bitSum < 0)

\* The loop over i of operator-, over the words of inInt.
RECURSIVE subLoop(_, _, _, _, _)
subLoop(sol, thisBits, inBits, i, carryOver) ==
    IF i >= Len(inBits) THEN [bits |-> sol, carryOver |-> carryOver]
    ELSE IF ~carryOver /\ thisBits[i + 1] >= inBits[i + 1]
         THEN subLoop([sol EXCEPT ![i + 1] = @ - inBits[i + 1]],
                      thisBits, inBits, i + 1, carryOver)
         ELSE LET r == subBits(sol[i + 1], thisBits[i + 1], inBits[i + 1],
                               0, carryOver)
              IN  subLoop([sol EXCEPT ![i + 1] = r.word],
                          thisBits, inBits, i + 1, r.carryOver)

\* The bit loop of the trailing borrow: clears the first set bit, sets the
\* clear bits below it.
RECURSIVE borrowBits(_, _)
borrowBits(solWord, j) ==
    IF j >= unitSize THEN [word |-> solWord, carryOver |-> TRUE]
    ELSE IF getNthBit(solWord, j)
         THEN [word |-> setNthBit(solWord, j, FALSE), carryOver |-> FALSE]
         ELSE borrowBits(setNthBit(solWord, j, TRUE), j + 1)


\* A subtraction that stops at the last word of inInt: the borrow that is
\* left is not taken from the words above.
borrowLoopSkipped(sol, i, thisSize) == sol

\* The borrow that is left after the last word of inInt.
RECURSIVE borrowLoop(_, _, _)
borrowLoop(sol, i, thisSize) ==
    IF i >= thisSize THEN sol
    ELSE LET r == borrowBits(sol[i + 1], 0)
             sol1 == [sol EXCEPT ![i + 1] = r.word]
         IN  IF r.carryOver THEN borrowLoop(sol1, i + 1, thisSize) ELSE sol1

RECURSIVE opPlus(_, _)
RECURSIVE opMinus(_, _)

\* operator+
opPlus(x, y) ==
    IF x.m_sign # y.m_sign
    THEN IF x.m_sign THEN opMinus(x, abs(y)) ELSE opMinus(y, abs(x))
    ELSE LET solution == matchVectorSize(x, Len(y.m_bits))
             thisSize == Len(x.m_bits)
             inIntSize == Len(y.m_bits)
             biggerSize == IF thisSize >= inIntSize THEN thisSize ELSE inIntSize
             smallerSize == IF thisSize >= inIntSize THEN inIntSize ELSE thisSize
         IN  trimLeadingZeroes(
                 [solution EXCEPT !.m_bits =
                      addLoop(@, y.m_bits, 0, smallerSize, biggerSize)])

\* operator-(const BigInt&)
opMinus(x, y) ==
    IF opLess(x, y) THEN opNeg(opMinus(y, x))
    ELSE IF x.m_sign # y.m_sign
    THEN IF x.m_sign THEN opPlus(x, abs(y)) ELSE opNeg(opPlus(abs(x), y))
    ELSE LET r == subLoop(x.m_bits, x.m_bits, y.m_bits, 0, FALSE)
             bits == IF r.carryOver
                     THEN borrowLoop(r.bits, Len(y.m_bits), Len(x.m_bits))
                     ELSE r.bits
         IN  trimLeadingZeroes([x EXCEPT !.m_bits = bits])


\* The nesting of calls in the additive core: how many calls of operator+
\* and operator- are open when a word loop is reached, counted from depth
\* for the call on (x, y); MaxNesting + 1 when that many calls are open and
\* no word loop was reached.
MaxNesting == 8

RECURSIVE plusNesting(_, _, _)
RECURSIVE minusNesting(_, _, _)

\* The call structure of operator-(const BigInt&) with the test this <
\* inInt answering true also for equal operands.
minusNestingSwapsEqual(x, y, depth) ==
    IF depth > MaxNesting THEN depth
    ELSE IF ~opLess(y, x) THEN minusNesting(y, x, depth + 1)
    ELSE IF x.m_sign # y.m_sign
    THEN IF x.m_sign THEN plusNesting(x, abs(y), depth + 1)
         ELSE plusNesting(abs(x), y, depth + 1)
    ELSE depth

\* The call structure of operator+
plusNesting(x, y, depth) ==
    IF depth > MaxNesting THEN depth
    ELSE IF x.m_sign # y.m_sign
    THEN IF x.m_sign THEN minusNesting(x, abs(y), depth + 1)
         ELSE minusNesting(y, abs(x), depth + 1)
    ELSE depth

\* The call structure of operator-(const BigInt&)
minusNesting(x, y, depth) ==
    IF depth > MaxNesting THEN depth
    ELSE IF opLess(x, y) THEN minusNesting(y, x, depth + 1)
    ELSE IF x.m_sign # y.m_sign
    THEN IF x.m_sign THEN plusNesting(x, abs(y), depth + 1)
         ELSE plusNesting(abs(x), y, depth + 1)
    ELSE depth

(***************************************************************************)
(* BITWISE OPERATORS                                                       *)
(***************************************************************************)

\* The first loop of operator<<: bit totalBits-i-1 takes bit totalBits-i-inInt-1.
RECURSIVE shlCopy(_, _, _, _)
shlCopy(solution, totalBits, inInt, i) ==
    IF i >= totalBits - inInt THEN solution
    ELSE shlCopy(setTotalNthBit(solution, totalBits - i - 1,
                     getTotalNthBit(solution, totalBits - i - inInt - 1)),
                 totalBits, inInt, i + 1)

\* The second loop of operator<<: the low inInt bits are cleared.
RECURSIVE shlClear(_, _, _)
shlClear(solution, totalBits, i) ==
    IF i >= totalBits THEN solution
    ELSE shlClear(setTotalNthBit(solution, totalBits - i - 1, FALSE),
                  totalBits, i + 1)



\* A left shift that first widens the operand by the words the shifted
\* bits need, and so loses none of them.
opShlExpanding(x, inInt) ==
    LET wide == matchVectorSize(x, Len(x.m_bits) + (inInt \div unitSize) + 1)
        totalBits == unitSize * Len(wide.m_bits)
    IN  IF inInt = 0 THEN x
        ELSE trimLeadingZeroes(
                 shlClear(shlCopy(wide, totalBits, inInt, 0),
                          totalBits, totalBits - inInt))

\* A left shift without the second loop: the low inInt bits keep their
\* old values.
opShlKeepsLowBits(x, inInt) ==
    LET totalBits == unitSize * Len(x.m_bits)
    IN  IF inInt = 0 THEN x
        ELSE IF inInt >= totalBits THEN BigInt(0, TRUE)
        ELSE shlCopy(x, totalBits, inInt, 0)

\* operator<<(arrayType): truncating, the word count is kept, no trim.
opShl(x, inInt) ==
    LET totalBits == unitSize * Len(x.m_bits)
    IN  IF inInt = 0 THEN x
        ELSE IF inInt >= totalBits THEN BigInt(0, TRUE)
        ELSE shlClear(shlCopy(x, totalBits, inInt, 0),
                      totalBits, totalBits - inInt)

\* The first loop of operator>>: bit i takes bit i+inInt.
RECURSIVE shrCopy(_, _, _, _)
shrCopy(solution, totalBits, inInt, i) ==
    IF i >= totalBits - inInt THEN solution
    ELSE shrCopy(setTotalNthBit(solution, i,
                     getTotalNthBit(solution, i + inInt)),
                 totalBits, inInt, i + 1)

\* The second loop of operator>>: the high inInt bits are cleared.
RECURSIVE shrClear(_, _, _)
shrClear(solution, totalBits, i) ==
    IF i >= totalBits THEN solution
    ELSE shrClear(setTotalNthBit(solution, i, FALSE), totalBits, i + 1)


\* A right shift that normalizes its result.
opShrTrimmed(x, inInt) ==
    LET totalBits == unitSize * Len(x.m_bits)
    IN  IF inInt = 0 THEN x
        ELSE IF inInt >= totalBits THEN BigInt(0, TRUE)
        ELSE trimLeadingZeroes(shrClear(shrCopy(x, totalBits, inInt, 0),
                                        totalBits, totalBits - inInt))

\* operator>>(arrayType): the word count is kept, no trim.
opShr(x, inInt) ==
    LET totalBits == unitSize * Len(x.m_bits)
    IN  IF inInt = 0 THEN x
        ELSE IF inInt >= totalBits THEN BigInt(0, TRUE)
        ELSE shrClear(shrCopy(x, totalBits, inInt, 0),
                      totalBits, totalBits - inInt)

\* The native &, | and ^ of two words, bit by bit.
RECURSIVE wordAnd(_, _, _)
wordAnd(u, v, k) ==
    IF k >= unitSize THEN 0
    ELSE (IF getNthBit(u, k) /\ getNthBit(v, k) THEN Pow2(k) ELSE 0)
         + wordAnd(u, v, k + 1)

RECURSIVE wordOr(_, _, _)
wordOr(u, v, k) ==
    IF k >= unitSize THEN 0
    ELSE (IF getNthBit(u, k) \/ getNthBit(v, k) THEN Pow2(k) ELSE 0)
         + wordOr(u, v, k + 1)

RECURSIVE wordXor(_, _, _)
wordXor(u, v, k) ==
    IF k >= unitSize THEN 0
    ELSE (IF getNthBit(u, k) # getNthBit(v, k) THEN Pow2(k) ELSE 0)
         + wordXor(u, v, k + 1)

\* The negation of a word in two's complement, in place of its complement.
wordNegate(u) == (Pow2(unitSize) - u) % Pow2(unitSize)

\* The native ~ of a word.
wordNot(u) == maxBitValue - u

\* operator&
opAnd(x, y) ==
    LET solution == matchVectorSize(x, Len(y.m_bits))
        smallerSize == IF Len(x.m_bits) < Len(y.m_bits)
                       THEN Len(x.m_bits) ELSE Len(y.m_bits)
    IN  trimLeadingZeroes(
            [m_sign |-> (x.m_sign = y.m_sign),
             m_bits |-> [i \in 1 .. Len(solution.m_bits) |->
                            IF i <= smallerSize
                            THEN wordAnd(solution.m_bits[i], y.m_bits[i], 0)
                            ELSE 0]])


\* An OR that treats the words only the longer operand has as operator&
\* does: they are set to 0.
opOrClearsLeading(x, y) ==
    LET solution == matchVectorSize(x, Len(y.m_bits))
        smallerSize == IF Len(x.m_bits) < Len(y.m_bits)
                       THEN Len(x.m_bits) ELSE Len(y.m_bits)
    IN  trimLeadingZeroes(
            [m_sign |-> (x.m_sign = y.m_sign),
             m_bits |-> [i \in 1 .. Len(solution.m_bits) |->
                            IF i <= smallerSize
                            THEN wordOr(solution.m_bits[i], y.m_bits[i], 0)
                            ELSE 0]])

\* operator|
opOr(x, y) ==
    LET solution == matchVectorSize(x, Len(y.m_bits))
        thisBigger == ~(Len(x.m_bits) < Len(y.m_bits))
        smallerSize == IF thisBigger THEN Len(y.m_bits) ELSE Len(x.m_bits)
    IN  trimLeadingZeroes(
            [m_sign |-> (x.m_sign = y.m_sign),
             m_bits |-> [i \in 1 .. Len(solution.m_bits) |->
                            IF i <= smallerSize
                            THEN wordOr(solution.m_bits[i], y.m_bits[i], 0)
                            ELSE IF ~thisBigger
                                 THEN (solution.m_bits[i] + y.m_bits[i])
                                      % Pow2(unitSize)
                                 ELSE solution.m_bits[i]]])

\* operator^
opXor(x, y) ==
    LET solution == matchVectorSize(x, Len(y.m_bits))
        thisBigger == ~(Len(x.m_bits) < Len(y.m_bits))
        smallerSize == IF thisBigger THEN Len(y.m_bits) ELSE Len(x.m_bits)
    IN  trimLeadingZeroes(
            [m_sign |-> (x.m_sign = y.m_sign),
             m_bits |-> [i \in 1 .. Len(solution.m_bits) |->
                            IF i <= smallerSize
                            THEN wordXor(solution.m_bits[i], y.m_bits[i], 0)
                            ELSE IF ~thisBigger
                                 THEN wordXor(y.m_bits[i], 0, 0)
                                 ELSE wordXor(solution.m_bits[i], 0, 0)]])

\* operator~
opNot(x) ==
    trimLeadingZeroes(
        [x EXCEPT !.m_bits = [i \in 1 .. Len(@) |-> wordNot(@[i])]])

(***************************************************************************)
(* ARITHMETIC OPERATORS: multiplication, division, increment, decrement    *)
(***************************************************************************)

\* The loop over j of operator*: bit i+j is set for every set bit j of inInt.
RECURSIVE mulInner(_, _, _, _)
mulInner(intermediate, y, i, j) ==
    IF j >= unitSize * Len(y.m_bits) THEN intermediate
    ELSE mulInner(IF getTotalNthBit(y, j)
                  THEN setTotalNthBit(intermediate, i + j, TRUE)
                  ELSE intermediate,
                  y, i, j + 1)

\* The loop over i of operator*, over the bits of *this.
RECURSIVE mulLoop(_, _, _, _, _)
mulLoop(solution, x, y, i, solutionSize) ==
    IF i >= unitSize * Len(x.m_bits) THEN solution
    ELSE IF getTotalNthBit(x, i)
         THEN LET intermediate ==
                      mulInner(matchVectorSize(zero, solutionSize), y, i, 0)
              IN  mulLoop(matchVectorSize(opPlus(solution, intermediate),
                                          solutionSize),
                          x, y, i + 1, solutionSize)
         ELSE mulLoop(solution, x, y, i + 1, solutionSize)

\* operator* without the sign rule: the product is always positive.
opTimesAlwaysPositive(x, y) ==
    LET solutionSize == Len(x.m_bits) + Len(y.m_bits)
    IN  trimLeadingZeroes(
            mulLoop(matchVectorSize(zero, solutionSize), x, y, 0,
                    solutionSize))

\* operator*
opTimes(x, y) ==
    LET solutionSize == Len(x.m_bits) + Len(y.m_bits)
        solution == mulLoop(matchVectorSize(zero, solutionSize), x, y, 0,
                            solutionSize)
    IN  trimLeadingZeroes(
            IF x.m_sign # y.m_sign
            THEN [solution EXCEPT !.m_sign = FALSE]
            ELSE solution)

\* One iteration of the bit loop of divide: the remainder grows by a word
\* when its top bit is set, is shifted by one bit and takes the next bit of
\* the dividend; the divisor is subtracted when it fits.
divStep(quotient, remainder, dividend, divisor, totalBits, i) ==
    LET grown == IF getNthBit(remainder.m_bits[Len(remainder.m_bits)],
                              unitSize - 1)
                 THEN [remainder EXCEPT !.m_bits = Append(@, 0)]
                 ELSE remainder
        shifted == setTotalNthBit(opShl(grown, 1), 0,
                       getTotalNthBit(dividend, totalBits - i - 1))
    IN  IF opGreaterEq(shifted, divisor)
        THEN [quotient |-> setTotalNthBit(quotient, totalBits - i - 1, TRUE),
              remainder |-> opMinus(shifted, divisor)]
        ELSE [quotient |-> quotient, remainder |-> shifted]

\* The bit loop of divide, from the most significant bit of the dividend.
RECURSIVE divLoop(_, _, _, _, _, _)
divLoop(quotient, remainder, dividend, divisor, totalBits, i) ==
    IF i >= totalBits THEN [quotient |-> quotient, remainder |-> remainder]
    ELSE LET s == divStep(quotient, remainder, dividend, divisor,
                          totalBits, i)
         IN  divLoop(s.quotient, s.remainder, dividend, divisor, totalBits,
                     i + 1)

\* The quotient and the remainder after the first n iterations of the bit
\* loop of divide.
RECURSIVE divAfter(_, _, _)
divAfter(dividend, divisor, n) ==
    IF n = 0
    THEN [quotient |-> matchVectorSize(zero, Len(dividend.m_bits)),
          remainder |-> matchVectorSize(zero, Len(divisor.m_bits))]
    ELSE LET s == divAfter(dividend, divisor, n - 1)
         IN  divStep(s.quotient, s.remainder, dividend, divisor,
                     unitSize * Len(dividend.m_bits), n - 1)


\* A divide without the test for a zero divisor.
divideUnguarded(dividend, divisor, solution, returnRemainder) ==
    IF opEqWord(divisor, 1) THEN dividend
    ELSE IF opLess(dividend, divisor)
         THEN IF returnRemainder THEN dividend ELSE solution
    ELSE LET r == divLoop(matchVectorSize(zero, Len(dividend.m_bits)),
                          matchVectorSize(zero, Len(divisor.m_bits)),
                          dividend, divisor,
                          unitSize * Len(dividend.m_bits), 0)
         IN  IF returnRemainder
             THEN trimLeadingZeroes(r.remainder)
             ELSE trimLeadingZeroes(r.quotient)

\* divide(dividend, divisor, solution, returnRemainder): the value left in
\* solution.
divide(dividend, divisor, solution, returnRemainder) ==
    IF opEqWord(divisor, 0) THEN solution
    ELSE IF opEqWord(divisor, 1) THEN dividend
    ELSE IF opLess(dividend, divisor)
         THEN IF returnRemainder THEN dividend ELSE solution
    ELSE LET r == divLoop(matchVectorSize(zero, Len(dividend.m_bits)),
                          matchVectorSize(zero, Len(divisor.m_bits)),
                          dividend, divisor,
                          unitSize * Len(dividend.m_bits), 0)
         IN  IF returnRemainder
             THEN trimLeadingZeroes(r.remainder)
             ELSE trimLeadingZeroes(r.quotient)

\* operator/
opDiv(x, y) ==
    LET solution == divide(x, y, zero, FALSE)
    IN  IF x.m_sign # y.m_sign
        THEN [solution EXCEPT !.m_sign = FALSE]
        ELSE solution

\* operator%
opMod(x, y) ==
    LET solution == divide(x, y, zero, TRUE)
    IN  IF ~x.m_sign THEN [solution EXCEPT !.m_sign = FALSE] ELSE solution

\* operator++(): the value of *this afterwards.
opInc(x) ==
    IF x.m_bits[1] < maxBitValue
    THEN [x EXCEPT !.m_bits[1] = @ + 1]
    ELSE opPlus(x, BigInt(1, TRUE))

\* operator--(): the value of *this afterwards.
opDec(x) ==
    IF x.m_bits[1] > 0
    THEN [x EXCEPT !.m_bits[1] = @ - 1]
    ELSE opMinus(x, BigInt(1, TRUE))


(***************************************************************************)
(* The program: two BigInt objects a and b of a caller, the temporary res  *)
(* an operator returned, and the three answers rel of a comparison.  op    *)
(* names the operator that produced res or rel ("none": no temporary is    *)
(* alive), arg is the shift count of a shift.                              *)
(***************************************************************************)
VARIABLES a, b, op, arg, res, rel, ord

vars == <<a, b, op, arg, res, rel, ord>>

noRel == [lt |-> FALSE, eq |-> FALSE, gt |-> FALSE]

\* The answers of operator< on the ordered pairs of three objects.
noOrd == [ab |-> FALSE, ba |-> FALSE, bc |-> FALSE,
          cb |-> FALSE, ac |-> FALSE, ca |-> FALSE]

\* The shift counts tried: below, at and above the total bit count.
ShiftCounts == 0 .. (unitSize * MaxWords)

Fits(x) == Len(x.m_bits) <= MaxWords

Init ==
    /\ a = zero
    /\ b = zero
    /\ op = "none"
    /\ arg = 0
    /\ res = zero
    /\ rel = noRel
    /\ ord = noOrd

\* a binary or unary operator returns a temporary
Returns(name, value, count) ==
    /\ op = "none"
    /\ op' = name
    /\ res' = value
    /\ arg' = count
    /\ UNCHANGED <<a, b, rel, ord>>

\* BigInt a{inVal, sign};
ConstructA ==
    \E inVal \in arrayType, sign \in BOOLEAN :
        /\ op = "none"
        /\ a' = BigInt(inVal, sign)
        /\ UNCHANGED <<b, op, arg, res, rel, ord>>

\* BigInt b{inVal, sign};
ConstructB ==
    \E inVal \in arrayType, sign \in BOOLEAN :
        /\ op = "none"
        /\ b' = BigInt(inVal, sign)
        /\ UNCHANGED <<a, op, arg, res, rel, ord>>

Plus == Returns("+", opPlus(a, b), 0)

Minus == Returns("-", opMinus(a, b), 0)

\* a - a: both operands are the same object
MinusSelf == Returns("-self", opMinus(a, a), 0)

Times == Returns("*", opTimes(a, b), 0)

Divide == Returns("/", opDiv(a, b), 0)

Modulo == Returns("%", opMod(a, b), 0)

Negate == Returns("neg", opNeg(a), 0)

ShiftLeft == \E inInt \in ShiftCounts : Returns("<<", opShl(a, inInt), inInt)

ShiftRight == \E inInt \in ShiftCounts : Returns(">>", opShr(a, inInt), inInt)

BitAnd == Returns("&", opAnd(a, b), 0)

BitOr == Returns("|", opOr(a, b), 0)

BitXor == Returns("^", opXor(a, b), 0)

BitNot == Returns("~", opNot(a), 0)

\* ~(a & b)
NotOfAnd == Returns("~&", opNot(opAnd(a, b)), 0)

\* a | ~a
OrWithNot == Returns("|~", opOr(a, opNot(a)), 0)

\* a & a
AndSelf == Returns("&self", opAnd(a, a), 0)

\* a++: the copy of the old value is returned, a is incremented in place
PostIncrement ==
    /\ op = "none"
    /\ Fits(opInc(a))
    /\ a' = opInc(a)
    /\ res' = a
    /\ op' = "++"
    /\ UNCHANGED <<b, arg, rel, ord>>

\* a--
PostDecrement ==
    /\ op = "none"
    /\ Fits(opDec(a))
    /\ a' = opDec(a)
    /\ res' = a
    /\ op' = "--"
    /\ UNCHANGED <<b, arg, rel, ord>>

\* a < b, a == b, a > b on two objects
Compare ==
    /\ op = "none"
    /\ op' = "cmp"
    /\ rel' = [lt |-> opLessObj(a, b, FALSE),
               eq |-> opEqObj(a, b, FALSE),
               gt |-> opGreaterObj(a, b, FALSE)]
    /\ UNCHANGED <<a, b, arg, res, ord>>

\* a < a, a == a, a > a: both operands are the same object
CompareSelf ==
    /\ op = "none"
    /\ op' = "cmpself"
    /\ rel' = [lt |-> opLessObj(a, a, TRUE),
               eq |-> opEqObj(a, a, TRUE),
               gt |-> opGreaterObj(a, a, TRUE)]
    /\ UNCHANGED <<a, b, arg, res, ord>>

\* a == inInt with a native word: the shortcut operator==(arrayType)
CompareWord ==
    \E inInt \in arrayType :
        /\ op = "none"
        /\ op' = "==w"
        /\ arg' = inInt
        /\ rel' = [noRel EXCEPT !.eq = opEqWord(a, inInt)]
        /\ UNCHANGED <<a, b, res, ord>>

HasTemporary == op \notin {"none", "cmp", "cmpself", "cmp3", "==w"}

\* BigInt{inVal, sign} as an unnamed temporary in an expression
Temporary ==
    \E inVal \in arrayType, sign \in BOOLEAN :
        Returns("tmp", BigInt(inVal, sign), 0)

\* operator< on every ordered pair of a, b and the temporary c
CompareThree ==
    /\ HasTemporary
    /\ op' = "cmp3"
    /\ arg' = 0
    /\ ord' = [ab |-> opLessObj(a, b, FALSE), ba |-> opLessObj(b, a, FALSE),
               bc |-> opLessObj(b, res, FALSE), cb |-> opLessObj(res, b, FALSE),
               ac |-> opLessObj(a, res, FALSE), ca |-> opLessObj(res, a, FALSE)]
    /\ UNCHANGED <<a, b, res, rel>>

\* a = res: with the operator before it, the compound assignment a op= b
AssignA ==
    /\ HasTemporary
    /\ Fits(res)
    /\ a' = res
    /\ op' = "none" /\ arg' = 0 /\ res' = zero
    /\ UNCHANGED <<b, rel, ord>>

\* b = res
AssignB ==
    /\ HasTemporary
    /\ Fits(res)
    /\ b' = res
    /\ op' = "none" /\ arg' = 0 /\ res' = zero
    /\ UNCHANGED <<a, rel, ord>>

\* the temporary, or the answers of a comparison, are dropped
Discard ==
    /\ op # "none"
    /\ op' = "none" /\ arg' = 0 /\ res' = zero
    /\ rel' = noRel /\ ord' = noOrd
    /\ UNCHANGED <<a, b>>

Next ==
    \/ ConstructA \/ ConstructB
    \/ Plus \/ Minus \/ MinusSelf \/ Times \/ Divide \/ Modulo \/ Negate
    \/ ShiftLeft \/ ShiftRight \/ BitAnd \/ BitOr \/ BitXor \/ BitNot
    \/ NotOfAnd \/ OrWithNot \/ AndSelf
    \/ PostIncrement \/ PostDecrement
    \/ Compare \/ CompareSelf \/ CompareWord \/ Temporary \/ CompareThree
    \/ AssignA \/ AssignB \/ Discard

Spec == Init /\ [][Next]_vars


(***************************************************************************)
(* The integers the objects stand for, used to state the properties.       *)
(***************************************************************************)

\* the magnitude as a natural number
RECURSIVE Magnitude(_)
Magnitude(bits) ==
    IF Len(bits) = 0 THEN 0
    ELSE bits[1] + Pow2(unitSize) * Magnitude(Tail(bits))

\* the signed integer
Value(x) ==
    IF x.m_sign THEN Magnitude(x.m_bits) ELSE 0 - Magnitude(x.m_bits)

\* the normalized little-endian words of a natural number
RECURSIVE Words(_)
Words(n) ==
    IF n < Pow2(unitSize) THEN <<n>>
    ELSE <<n % Pow2(unitSize)>> \o Words(n \div Pow2(unitSize))

\* no most-significant zero word, unless the magnitude is the single word 0
Normalized(x) ==
    /\ Len(x.m_bits) >= 1
    /\ Len(x.m_bits) > 1 => x.m_bits[Len(x.m_bits)] # 0

(***************************************************************************)
(* Properties                                                              *)
(***************************************************************************)

\* C1: for normalized operands, the value every public operation returns
\* (or leaves in a, for ++ and --) is normalized.
C1_ResultNormalized ==
    /\ (HasTemporary /\ op \notin {"++", "--"}
            /\ Normalized(a) /\ Normalized(b)) => Normalized(res)
    /\ (op \in {"++", "--"} /\ Normalized(res)) => Normalized(a)

\* C2: addition is commutative: a + b == b + a for all a and b.
C2_AddCommutes == op = "+" => opEq(res, opPlus(b, a))

\* C3: division law: for b of non-zero magnitude, (a / b) * b + (a % b) == a
\* and a % b has the sign of a.
C3_DivisionLaw ==
    (op = "/" /\ Normalized(a) /\ Normalized(b) /\ Magnitude(b.m_bits) # 0)
        => /\ opEq(opPlus(opTimes(res, b), opMod(a, b)), a)
           /\ opMod(a, b).m_sign = a.m_sign

\* C4: for normalized a and b of non-zero magnitude, a < b is true exactly
\* when the integer a stands for is less than the integer b stands for.
C4_LessIsValueOrder ==
    (op = "cmp" /\ Normalized(a) /\ Normalized(b)
        /\ Magnitude(a.m_bits) # 0 /\ Magnitude(b.m_bits) # 0)
        => (rel.lt <=> Value(a) < Value(b))

\* C5: for negative a and positive b, a / b is floor(|a| / |b|) with negative
\* sign and a % b is |a| mod |b| with negative sign.  (Stated for divisors
\* of magnitude 2 or more: the divisor 1 has a path of its own in divide.)
C5_TruncatesTowardZero ==
    (Normalized(a) /\ Normalized(b) /\ ~a.m_sign /\ b.m_sign
        /\ Magnitude(a.m_bits) # 0 /\ Magnitude(b.m_bits) > 1)
        => /\ op = "/" =>
                  res = [m_sign |-> FALSE,
                         m_bits |-> Words(Magnitude(a.m_bits)
                                          \div Magnitude(b.m_bits))]
           /\ op = "%" =>
                  res = [m_sign |-> FALSE,
                         m_bits |-> Words(Magnitude(a.m_bits)
                                          % Magnitude(b.m_bits))]

\* C6: for non-negative a and positive b, a / b is the normalized positive
\* floor(a / b) and a % b is the normalized positive a mod b.
C6_PositiveDivMod ==
    (Normalized(a) /\ Normalized(b) /\ a.m_sign /\ b.m_sign
        /\ Magnitude(b.m_bits) # 0)
        => /\ op = "/" =>
                  res = [m_sign |-> TRUE,
                         m_bits |-> Words(Magnitude(a.m_bits)
                                          \div Magnitude(b.m_bits))]
           /\ op = "%" =>
                  res = [m_sign |-> TRUE,
                         m_bits |-> Words(Magnitude(a.m_bits)
                                          % Magnitude(b.m_bits))]

\* C7: a * b has the normalized magnitude |a| * |b|, of at most
\* len(a) + len(b) words, and is positive exactly when the signs agree.
C7_Product ==
    op = "*" =>
        /\ res.m_bits = Words(Magnitude(a.m_bits) * Magnitude(b.m_bits))
        /\ Len(res.m_bits) <= Len(a.m_bits) + Len(b.m_bits)
        /\ res.m_sign = (a.m_sign = b.m_sign)

\* C7 (witness): two negative one-word operands whose product needs two
\* words; the product is positive.
C7_Witness ==
    /\ op = "*"
    /\ a = BigInt(maxBitValue, FALSE)
    /\ b = BigInt(maxBitValue, FALSE)
    /\ res = [m_sign |-> TRUE, m_bits |-> Words(maxBitValue * maxBitValue)]
    /\ Len(res.m_bits) = 2

\* C8: a + zero() == a for every a a constructor gives, a zero magnitude
\* with sign=false included.
C8_AddZero ==
    (op = "+" /\ b = zero /\ Len(a.m_bits) = 1) => opEq(res, a)

\* C9: a - a == zero() for every a, positive or negative (stated for the
\* normalized a of non-zero magnitude).
C9_SelfSubtraction ==
    (op = "-self" /\ Normalized(a) /\ Magnitude(a.m_bits) # 0)
        => opEq(res, zero)

\* C10: exactly one of a < b, a == b, a > b is true, also when a and b are
\* the same object.
C10_Trichotomy ==
    op \in {"cmp", "cmpself"} =>
        \/ rel.lt /\ ~rel.eq /\ ~rel.gt
        \/ ~rel.lt /\ rel.eq /\ ~rel.gt
        \/ ~rel.lt /\ ~rel.eq /\ rel.gt

\* C10 (witness): the two zeroes that differ only in their sign are
\* compared; the negative one is less.
C10_Witness ==
    /\ op = "cmp"
    /\ a = BigInt(0, FALSE)
    /\ b = zero
    /\ rel = [lt |-> TRUE, eq |-> FALSE, gt |-> FALSE]

\* C11: operator< is transitive on normalized values: whenever x < y and
\* y < z hold for three of them, x < z holds, in every order of the three.
C11_LessTransitive ==
    (op = "cmp3" /\ Normalized(a) /\ Normalized(b) /\ Normalized(res)) =>
        /\ (ord.ab /\ ord.bc) => ord.ac
        /\ (ord.ac /\ ord.cb) => ord.ab
        /\ (ord.ba /\ ord.ac) => ord.bc
        /\ (ord.bc /\ ord.ca) => ord.ba
        /\ (ord.ca /\ ord.ab) => ord.cb
        /\ (ord.cb /\ ord.ba) => ord.ca

\* C11 (witness): a negative two-word a, a positive one-word b and the
\* positive two-word temporary -a form a chain a < b < -a.
C11_Witness ==
    /\ op = "cmp3"
    /\ Normalized(a) /\ Normalized(b) /\ Normalized(res)
    /\ ~a.m_sign /\ b.m_sign /\ res.m_sign
    /\ Len(a.m_bits) = 2 /\ Len(b.m_bits) = 1 /\ Len(res.m_bits) = 2
    /\ ord.ab /\ ord.bc /\ ord.ac

\* C12: two values are equal exactly when their signs and their word
\* sequences are equal, and unary minus changes the sign and nothing else;
\* so -zero() is the single word 0 with sign=false and zero() == -zero()
\* is false.
C12_EqualityAndNegation ==
    /\ op = "cmp" => (rel.eq <=> (a.m_sign = b.m_sign /\ a.m_bits = b.m_bits))
    /\ op = "neg" =>
        /\ res.m_sign = ~a.m_sign
        /\ res.m_bits = a.m_bits
        /\ a = zero => (res = BigInt(0, FALSE) /\ ~opEq(zero, res))

\* C12 (witness): zero() negated.
C12_Witness ==
    /\ op = "neg"
    /\ a = zero
    /\ res = [m_sign |-> FALSE, m_bits |-> <<0>>]
    /\ ~opEq(a, res)

\* C13: for a normalized a and a divisor b whose magnitude is the single
\* word 1, of either sign, a / b has the magnitude of a and is positive
\* exactly when the signs of a and b agree, and a % b has zero magnitude
\* (stated for the a of non-zero magnitude).
C13_DivideByUnit ==
    (Normalized(a) /\ Magnitude(a.m_bits) # 0 /\ b.m_bits = <<1>>) =>
        /\ op = "/" => (res.m_bits = a.m_bits
                        /\ res.m_sign = (a.m_sign = b.m_sign))
        /\ op = "%" => Magnitude(res.m_bits) = 0

\* C14: for normalized a and b with |a| < |b| and |b| >= 2, of any signs,
\* a / b has zero magnitude and a % b equals a.
C14_SmallDividend ==
    (/\ Normalized(a) /\ Normalized(b)
     /\ Magnitude(a.m_bits) < Magnitude(b.m_bits)
     /\ Magnitude(b.m_bits) >= 2) =>
        /\ op = "/" => Magnitude(res.m_bits) = 0
        /\ op = "%" => opEq(res, a)

\* C15: De Morgan's law, ~(a & b) == (~a) | (~b), for all a and b of equal
\* or different word counts.
C15_DeMorganAll ==
    op = "~&" => opEq(res, opOr(opNot(a), opNot(b)))

\* C15 (amended): ~(a & b) == (~a) | (~b) for a and b of the same word
\* count whose a & b keeps that word count, so for all a and b of one word.
C15_DeMorgan ==
    (/\ op = "~&"
     /\ Len(a.m_bits) = Len(b.m_bits)
     /\ Len(opAnd(a, b).m_bits) = Len(a.m_bits)) =>
        opEq(res, opOr(opNot(a), opNot(b)))

\* C15 (witness): two-word operands of different signs whose complements
\* are trimmed to one word and whose a & b is not.
C15_Witness ==
    /\ op = "~&"
    /\ a = [m_sign |-> FALSE, m_bits |-> <<1, maxBitValue>>]
    /\ b = [m_sign |-> TRUE, m_bits |-> <<2, maxBitValue>>]
    /\ res = [m_sign |-> FALSE, m_bits |-> <<maxBitValue>>]
    /\ opOr(opNot(a), opNot(b)) = res

\* C16: a & a == a for every a, positive or negative, the sign included
\* (stated for the normalized a of non-zero magnitude).
C16_AndIdempotent ==
    (op = "&self" /\ Normalized(a) /\ Magnitude(a.m_bits) # 0)
        => opEq(res, a)

\* C17: for every normalized a of k words, a | ~a has exactly k words, each
\* with every bit set, also when ~a was shortened by normalization.
C17_OrWithComplement ==
    (op = "|~" /\ Normalized(a)) =>
        /\ Len(res.m_bits) = Len(a.m_bits)
        /\ \A i \in 1 .. Len(res.m_bits) : res.m_bits[i] = maxBitValue

\* C17 (witness): the top word of a is all ones, so ~a is shortened to one
\* word.
C17_Witness ==
    /\ op = "|~"
    /\ a.m_bits = <<1, maxBitValue>>
    /\ opNot(a).m_bits = <<maxBitValue - 1>>
    /\ res.m_bits = <<maxBitValue, maxBitValue>>

\* C18: for every non-negative normalized a and every n below the word
\* width such that no set bit of a is shifted past the top of a's word
\* count, a << n == a * from(2^n).
C18_ShiftIsMultiply ==
    (/\ op = "<<"
     /\ a.m_sign /\ Normalized(a)
     /\ arg < unitSize
     /\ Magnitude(a.m_bits) * Pow2(arg) < Pow2(unitSize * Len(a.m_bits))) =>
        opEq(res, opTimes(a, BigInt(Pow2(arg), TRUE)))

\* C18 (witness): a two-word a shifted by one bit, a bit crossing from the
\* low word into the high word.
C18_Witness ==
    /\ op = "<<"
    /\ arg = 1
    /\ a = [m_sign |-> TRUE, m_bits |-> <<maxBitValue, 1>>]
    /\ res = [m_sign |-> TRUE, m_bits |-> <<maxBitValue - 1, 3>>]
    /\ opTimes(a, BigInt(2, TRUE)) = res

\* C19: from(1) << wordWidth returns the two-word magnitude [0, 1], the
\* value 2^wordWidth, with positive sign.
C19_ShiftOneByWordWidth ==
    (op = "<<" /\ a = BigInt(1, TRUE) /\ arg = unitSize) =>
        res = [m_sign |-> TRUE, m_bits |-> <<0, 1>>]

\* C19 (amended): from(1) << wordWidth returns zero, the single word 0 with
\* positive sign: the shift count is not below the bit count of the one
\* word, and the set bit is discarded.
C19_ShiftOneByWordWidthIsZero ==
    (op = "<<" /\ a = BigInt(1, TRUE) /\ arg = unitSize) =>
        (res = zero /\ Magnitude(res.m_bits) = 0)

\* C19 (witness): from(1) shifted left by the word width.
C19_Witness ==
    /\ op = "<<"
    /\ a = BigInt(1, TRUE)
    /\ arg = unitSize
    /\ res = [m_sign |-> TRUE, m_bits |-> <<0>>]

C21_CarryOutOfTopWord ==
    LET k == Len(a.m_bits)
        sum == Magnitude(a.m_bits) + Magnitude(b.m_bits)
    IN  (/\ op = "+"
         /\ a.m_sign = b.m_sign
         /\ Len(b.m_bits) = k
         /\ sum >= Pow2(unitSize * k)) =>
            /\ Len(res.m_bits) = k + 1
            /\ res.m_bits[k + 1] = 1
            /\ Magnitude(SubSeq(res.m_bits, 1, k)) = sum % Pow2(unitSize * k)
            /\ res.m_sign = a.m_sign

\* C21 (witness): from(2^unitSize - 1) + from(1) is [0, 1], positive.
C21_Witness ==
    /\ op = "+"
    /\ a = BigInt(maxBitValue, TRUE)
    /\ b = BigInt(1, TRUE)
    /\ res = [m_sign |-> TRUE, m_bits |-> <<0, 1>>]

\* C22: after ++a the value equals the old a + from(1) and after --a the
\* old a - from(1), for every a of either sign, on the fast path and on the
\* fallback; the postfix forms return the old value (stated for the
\* normalized a of non-zero magnitude; res is the old value).
C22_IncrementIsAddOne ==
    (Normalized(res) /\ Magnitude(res.m_bits) # 0) =>
        /\ op = "++" => opEq(a, opPlus(res, BigInt(1, TRUE)))
        /\ op = "--" => opEq(a, opMinus(res, BigInt(1, TRUE)))

C24_SameSignAddition ==
    (/\ op = "+"
     /\ Normalized(a) /\ Normalized(b)
     /\ a.m_sign = b.m_sign) =>
        /\ res.m_sign = a.m_sign
        /\ res.m_bits = Words(Magnitude(a.m_bits) + Magnitude(b.m_bits))

\* C25: for normalized a and b of the same sign with |a| >= |b|, a - b has
\* the sign of a and the normalized magnitude |a| - |b|, also when a borrow
\* runs on into the words of a above the top word of b.
C25_SameSignSubtraction ==
    (/\ op = "-"
     /\ Normalized(a) /\ Normalized(b)
     /\ a.m_sign = b.m_sign
     /\ Magnitude(a.m_bits) >= Magnitude(b.m_bits)) =>
        /\ res.m_sign = a.m_sign
        /\ res.m_bits = Words(Magnitude(a.m_bits) - Magnitude(b.m_bits))

\* C25 (witness): two negative operands, a of two words with a zero low
\* word and b of one word: the borrow is taken from the high word of a.
C25_Witness ==
    /\ op = "-"
    /\ a = [m_sign |-> FALSE, m_bits |-> <<0, 1>>]
    /\ b = BigInt(1, FALSE)
    /\ res = [m_sign |-> FALSE, m_bits |-> <<maxBitValue>>]

\* C26: for positive dividend a and divisor b with b > 1 and a >= b, after
\* each of the first n iterations of the bit loop the running remainder r
\* is non-negative and below the divisor, and the quotient bits set so far
\* times the divisor plus r is the integer of the top n bits of the
\* dividend.
C26_DivisionLoopInvariant ==
    LET totalBits == unitSize * Len(a.m_bits)
    IN  (/\ op \in {"/", "%"}
         /\ a.m_sign /\ b.m_sign
         /\ Magnitude(b.m_bits) > 1
         /\ Magnitude(a.m_bits) >= Magnitude(b.m_bits)) =>
            \A n \in 0 .. totalBits :
                LET s == divAfter(a, b, n)
                    r == Value(s.remainder)
                    q == Magnitude(s.quotient.m_bits) \div Pow2(totalBits - n)
                IN  /\ 0 <= r
                    /\ r < Magnitude(b.m_bits)
                    /\ q * Magnitude(b.m_bits) + r
                           = Magnitude(a.m_bits) \div Pow2(totalBits - n)

\* C27: for every non-negative normalized a and every n below the bit count
\* of a, a >> n compares equal to the normalized value floor(|a| / 2^n).
C27_RightShiftIsFloorDivision ==
    (/\ op = ">>"
     /\ a.m_sign /\ Normalized(a)
     /\ arg < unitSize * Len(a.m_bits)) =>
        opEq(res, [m_sign |-> TRUE,
                   m_bits |-> Words(Magnitude(a.m_bits) \div Pow2(arg))])

\* C28: a division or a modulo by a divisor whose magnitude is the single
\* word 0 returns a value whose magnitude is the single word 0, for every
\* a, and leaves a and the divisor as they were.
C28_DivisionByZero ==
    [][(/\ op = "none"
        /\ op' \in {"/", "%"}
        /\ b.m_bits = <<0>>) =>
           (/\ res'.m_bits = <<0>>
            /\ a' = a
            /\ b' = b)]_vars

\* C28 (witness): a negative two-word a was divided by zero().
C28_Witness ==
    /\ op = "/"
    /\ ~a.m_sign /\ Len(a.m_bits) = 2 /\ a.m_bits[2] # 0
    /\ b = zero
    /\ res.m_bits = <<0>>

\* C29: for every a and every native word w, the shortcut a == w is true
\* exactly when a == from(w), that is, when a is positive and its magnitude
\* is the single word w (stated for the a of non-zero magnitude).
C29_WordEqualityAgrees ==
    (op = "==w" /\ Magnitude(a.m_bits) # 0) =>
        /\ rel.eq <=> opEq(a, BigInt(arg, TRUE))
        /\ rel.eq <=> (a.m_sign /\ a.m_bits = <<arg>>)

\* C30: for all a and b, of every combination of signs and with zero
\* magnitudes of either sign, a + b and a - b reach a word loop after at
\* most three nested calls of operator+ and operator-, and so terminate.
C30_AdditiveCoreTerminates ==
    /\ op = "+" => plusNesting(a, b, 1) <= 3
    /\ op \in {"-", "-self"} =>
           minusNesting(a, IF op = "-" THEN b ELSE a, 1) <= 3

\* C30 (witness): a negative a smaller than a positive b: a - b is rewritten
\* as -(b - a), that as b + |a|, and the third call adds.
C30_Witness ==
    /\ op = "-"
    /\ ~a.m_sign /\ b.m_sign
    /\ minusNesting(a, b, 1) = 3
    /\ Value(res) = Value(a) - Value(b)


=============================================================================
